---------------------------- MODULE Spec2Model ----------------------------
(***************************************************************************)
(* bevy_rustysynth: the streaming bridge of src/assets.rs and the plugin of *)
(* src/lib.rs.                                                             *)
(*                                                                         *)
(* RustySynthPlugin::build parses a soundfont into the process-wide        *)
(* SOUNDFONT cell and registers MidiAudio.  Decodable::decoder takes the   *)
(* soundfont from the cell and calls MidiFileDecoder::new, which creates a *)
(* bounded async_channel of f32 samples and spawns a detached task (the    *)
(* producer) that renders a MidiAudio source and sends the interleaved     *)
(* samples; MidiFileDecoder::next (the consumer) polls the channel with    *)
(* try_recv.  A playback is a producer task, its channel and its decoder;  *)
(* the state of the playbacks is kept per playback slot.                   *)
(*                                                                         *)
(* The synthesis engine (rustysynth) is opaque: a rendered sample is       *)
(* modelled by a tag [call, frame, side] saying which render call, which    *)
(* frame and which buffer (left/right) it came from.                       *)
(***************************************************************************)
EXTENDS Integers, Sequences, FiniteSets, TLC

(***************************************************************************)
(* Bounds of the model.                                                    *)
(*   SampleRate  stands for `sample_rate` (44100 at assets.rs:92), scaled  *)
(*               down so that one block is a few samples;                  *)
(*   MaxNotes    longest MidiAudio::Sequence considered;                   *)
(*   MaxBlocks   most blocks a MIDI file needs before the sequencer        *)
(*               reports end_of_sequence.                                  *)
(***************************************************************************)
SampleRate == 2

MaxNotes == 2

MaxBlocks == 2

\* async_channel::bounded::<f32>(sample_rate * 2)
Capacity == SampleRate * 2

(***************************************************************************)
(* f32 arithmetic, as used by                                              *)
(*   (sample_rate as f32 * duration.as_secs_f32()) as usize                *)
(* A finite non-negative f32 is <<m, e>> standing for m * 2^e, with m = 0  *)
(* or 2^23 <= m < 2^24 (24 significant bits, round to nearest, ties to     *)
(* even).  Subnormals and overflow cannot arise for the values used here.  *)
(***************************************************************************)
MantBits == 24

NANOS_PER_SEC == 1000000000

Pow2(n) == 2 ^ n

FZero == <<0, 0>>

\* strip the trailing zero bits of a mantissa (the value m * 2^e is unchanged)
RECURSIVE OddPart(_)
OddPart(f) ==
    IF f[1] = 0 THEN FZero
    ELSE IF f[1] % 2 = 0 THEN OddPart(<<f[1] \div 2, f[2] + 1>>)
    ELSE f

\* number of bits of n > 0
RECURSIVE BitLen(_)
BitLen(n) == IF n = 0 THEN 0 ELSE 1 + BitLen(n \div 2)

\* Round n * 2^e (n >= 0; `sticky` says that a non-zero amount below the last
\* bit of n was already discarded) to 24 bits, nearest, ties to even.
RoundF32(n, e, sticky) ==
    IF n = 0 THEN FZero
    ELSE LET bits == BitLen(n) IN
         IF bits <= MantBits
         THEN <<n * Pow2(MantBits - bits), e - (MantBits - bits)>>
         ELSE LET k    == bits - MantBits
                  q    == n \div Pow2(k)
                  r    == n % Pow2(k)
                  half == Pow2(k - 1)
                  up   == \/ r > half
                          \/ r = half /\ sticky
                          \/ r = half /\ ~sticky /\ q % 2 = 1
                  m    == IF up THEN q + 1 ELSE q
              IN IF m = Pow2(MantBits)
                 THEN <<Pow2(MantBits - 1), e + k + 1>>
                 ELSE <<m, e + k>>

\* `n as f32` for an unsigned integer n
IntToF32(n) == RoundF32(n, 0, FALSE)

\* long division: <<quotient, remainder>> of (num * 2^bits) / den, one bit a step
RECURSIVE LongDiv(_, _, _, _)
LongDiv(q, r, den, bits) ==
    IF bits = 0 THEN <<q, r>>
    ELSE LET r2 == 2 * r IN
         IF r2 >= den THEN LongDiv(2 * q + 1, r2 - den, den, bits - 1)
         ELSE LongDiv(2 * q, r2, den, bits - 1)

\* a / b in f32 (b # 0)
F32Div(a, b) ==
    IF a[1] = 0 THEN FZero
    ELSE LET qr == LongDiv(a[1] \div b[1], a[1] % b[1], b[1], MantBits + 2)
         IN RoundF32(qr[1], a[2] - b[2] - (MantBits + 2), qr[2] # 0)

\* a + b in f32: the smaller operand is aligned to the larger one with three
\* extra bits, what falls below them is kept as the sticky flag
F32Add(a, b) ==
    IF a[1] = 0 THEN b
    ELSE IF b[1] = 0 THEN a
    ELSE LET hi == IF a[2] >= b[2] THEN a ELSE b
             lo == IF a[2] >= b[2] THEN b ELSE a
             d  == hi[2] - lo[2]
             l8 == lo[1] * 8
             lv == IF d > MantBits + 3 THEN 0 ELSE l8 \div Pow2(d)
             st == IF d > MantBits + 3 THEN TRUE ELSE l8 % Pow2(d) # 0
         IN RoundF32(hi[1] * 8 + lv, hi[2] - 3, st)

\* a * b in f32; the exact product is formed on the odd parts of the mantissas
F32Mul(a, b) ==
    LET oa == OddPart(a)
        ob == OddPart(b)
    IN RoundF32(oa[1] * ob[1], oa[2] + ob[2], FALSE)

\* `x as usize` for a non-negative f32: truncation toward zero
F32ToUsize(f) ==
    IF f[1] = 0 THEN 0
    ELSE IF f[2] >= 0 THEN f[1] * Pow2(f[2])
    ELSE IF -f[2] >= MantBits THEN 0
    ELSE f[1] \div Pow2(-f[2])

\* Duration::as_secs_f32: (secs as f32) + (nanos as f32) / (NANOS_PER_SEC as f32)
as_secs_f32(d) ==
    F32Add(IntToF32(d.secs), F32Div(IntToF32(d.nanos), IntToF32(NANOS_PER_SEC)))

\* (sample_rate as f32 * duration.as_secs_f32()) as usize
NoteLength(d) == F32ToUsize(F32Mul(IntToF32(SampleRate), as_secs_f32(d)))

(***************************************************************************)
(* The sources considered.  A MidiNote is {channel, preset, key, velocity, *)
(* duration}; Duration is {secs, nanos}.  A MidiAudio::File is opaque      *)
(* bytes: what the task sees of them is whether MidiFile::new parses them  *)
(* (`valid`) and after how many rendered blocks the sequencer reports      *)
(* end_of_sequence (`blocks`).                                             *)
(***************************************************************************)
Voices ==
    { [channel |-> 0, preset |-> 0, key |-> 60, velocity |-> 100],
      [channel |-> 1, preset |-> 5, key |-> 72, velocity |-> 64] }

Durations ==
    { [secs |-> 0, nanos |-> 0],
      [secs |-> 0, nanos |-> 500000000],
      [secs |-> 0, nanos |-> 999999999],
      [secs |-> 1, nanos |-> 500000000] }

\* let note_length = (sample_rate as f32 * duration.as_secs_f32()) as usize;
\* (a table over the durations considered, so that it is computed once)
note_length == [d \in Durations |-> NoteLength(d)]

MidiNote ==
    { [channel |-> v.channel, preset |-> v.preset, key |-> v.key,
       velocity |-> v.velocity, duration |-> d] : v \in Voices, d \in Durations }

MidiAudio ==
    {[kind |-> "File", valid |-> FALSE, blocks |-> 0, notes |-> << >>]}
    \cup {[kind |-> "File", valid |-> TRUE, blocks |-> b, notes |-> << >>] :
             b \in 1..MaxBlocks}
    \cup {[kind |-> "Sequence", valid |-> TRUE, blocks |-> 0, notes |-> s] :
             s \in UNION {[1..k -> MidiNote] : k \in 0..MaxNotes}}

(***************************************************************************)
(* Samples and Option<f32>.  Zero is the literal 0.0 that `next` returns   *)
(* on TryRecvError::Empty.                                                  *)
(***************************************************************************)
Zero == [call |-> 0, frame |-> 0, side |-> "0.0"]

Some(v) == [called |-> TRUE, some |-> TRUE, value |-> v]

None == [called |-> TRUE, some |-> FALSE, value |-> Zero]

NoCall == [called |-> FALSE, some |-> FALSE, value |-> Zero]

\* what render call number c leaves in a buffer of n frames
Rendered(c, n, side) == [i \in 1..n |-> [call |-> c, frame |-> i, side |-> side]]

\* the two buffers one after the other
Interleave_chain(a, b) == a \o b

\* itertools::interleave: alternate between the two iterators, the first one
\* first; when one is exhausted the other is drained
RECURSIVE Interleave(_, _)
Interleave(a, b) ==
    IF a = << >> THEN b ELSE <<Head(a)>> \o Interleave(b, Tail(a))

(***************************************************************************)
(* The application around the playbacks (src/lib.rs): the process-wide     *)
(* SOUNDFONT cell, and the soundfont readers a RustySynthPlugin may carry.  *)
(* A reader is opaque bytes: what build sees of it is whether              *)
(* SoundFont::new parses it (`valid`) and which soundfont results (`id`).  *)
(***************************************************************************)
Unset == "unset"

Readers ==
    { [valid |-> TRUE, id |-> "sfA"],
      [valid |-> TRUE, id |-> "sfB"],
      [valid |-> FALSE, id |-> "bad"] }

\* the readers and the playback slots of the one-playback specifications
OneReader == { r \in Readers : r.id # "sfB" }

Single == {1}

\* two playbacks at once
Pair == {1, 2}

\* a few short sources: a file that does not parse, a file of one block, and one
\* note that is longer than the channel
FewSources ==
    { m \in MidiAudio :
        \/ m.kind = "File" /\ m.blocks <= 1
        \/ /\ m.kind = "Sequence" /\ Len(m.notes) = 1
           /\ m.notes[1].channel = 0
           /\ m.notes[1].duration = [secs |-> 1, nanos |-> 500000000] }

\* a slot in which no decoder has been constructed yet
NoMidi == [kind |-> "none", valid |-> FALSE, blocks |-> 0, notes |-> << >>]

VARIABLES
    SOUNDFONT,    \* the OnceLock<Arc<SoundFont>>: Unset or the soundfont it holds
    registered,   \* MidiAudio audio source, asset and loader are registered
    hostPanic,    \* "none", or the call of the host that panicked
    lastBuilt,    \* history: soundfont parsed by the latest successful build
    midi,         \* the MidiAudio moved into the task
    synthOk,      \* whether Synthesizer::new returns Ok
    sf,           \* the Arc<SoundFont> moved into the task
    pc,           \* where the producer task is
    noteIdx,      \* position of `for MidiNote {..} in sequence.iter()`
    left, right,  \* the buffers handed to render
    idx,          \* items of left.iter().interleave(right.iter()) consumed
    renders,      \* render calls made so far
    queue,        \* the channel's buffered samples, oldest first
    closed,       \* the channel is closed
    closeCalled,  \* tx.close() at line 142 was executed
    rxAlive,      \* the MidiFileDecoder (and its Receiver) exists
    ret,          \* what the last call of `next` returned
    nout,         \* history: number of values `next` has returned, modulo 2
    eos,          \* history: "no", or whether None was returned once or again
    written,      \* history: every sample a send accepted, in order
    received,     \* history: every sample try_recv handed out, in order
    events,       \* history: the calls made on the synthesizer/sequencer
    dropPc        \* history: pc at the moment the decoder was dropped

\* every variable but the first four is a function of the playback slot

appVars == <<SOUNDFONT, registered, hostPanic, lastBuilt>>

vars == <<SOUNDFONT, registered, hostPanic, lastBuilt, midi, synthOk, sf, pc,
          noteIdx, left, right, idx, renders, queue, closed, closeCalled,
          rxAlive, ret, nout, eos, written, received, events, dropPc>>

producerVars == <<pc, noteIdx, left, right, idx, renders, events>>

\* a call on the synthesizer/sequencer: for note k of a Sequence the channel and
\* the two data values passed, for a File the block number
Ev(op, k) == [op |-> op, arg |-> k, channel |-> 0, a |-> 0, b |-> 0]

EvNote(op, k, ch, a, b) == [op |-> op, arg |-> k, channel |-> ch, a |-> a, b |-> b]

\* the process has started: SOUNDFONT is empty, nothing is registered, no
\* decoder has been constructed in the slots P
InitOf(P) ==
    /\ SOUNDFONT = Unset
    /\ registered = FALSE
    /\ hostPanic = "none"
    /\ lastBuilt = Unset
    /\ midi = [p \in P |-> NoMidi]
    /\ synthOk = [p \in P |-> TRUE]
    /\ sf = [p \in P |-> Unset]
    /\ pc = [p \in P |-> "none"]
    /\ noteIdx = [p \in P |-> 1]
    /\ left = [p \in P |-> << >>]
    /\ right = [p \in P |-> << >>]
    /\ idx = [p \in P |-> 0]
    /\ renders = [p \in P |-> 0]
    /\ queue = [p \in P |-> << >>]
    /\ closed = [p \in P |-> FALSE]
    /\ closeCalled = [p \in P |-> FALSE]
    /\ rxAlive = [p \in P |-> FALSE]
    /\ ret = [p \in P |-> NoCall]
    /\ nout = [p \in P |-> 0]
    /\ eos = [p \in P |-> "no"]
    /\ written = [p \in P |-> << >>]
    /\ received = [p \in P |-> << >>]
    /\ events = [p \in P |-> << >>]
    /\ dropPc = [p \in P |-> "alive"]

Init == InitOf(Single)

\* a panic of the host (in build or in decoder) ends the process
Running == hostPanic = "none"

(***************************************************************************)
(* RustySynthPlugin::build and Decodable::decoder.                         *)
(***************************************************************************)
\* a build that stores its soundfont whatever SOUNDFONT holds
Build_replace(r) ==
    /\ Running
    /\ IF ~r.valid
       THEN /\ hostPanic' = "build"
            /\ UNCHANGED <<SOUNDFONT, registered, lastBuilt>>
       ELSE /\ SOUNDFONT' = r.id
            /\ registered' = TRUE
            /\ lastBuilt' = r.id
            /\ UNCHANGED hostPanic
    /\ UNCHANGED <<midi, synthOk, sf, pc, noteIdx, left, right, idx, renders,
                   queue, closed, closeCalled, rxAlive, ret, nout, eos, written,
                   received, events, dropPc>>

\* a build that registers first and parses the soundfont afterwards
Build_registerFirst(r) ==
    /\ Running
    /\ registered' = TRUE
    /\ IF ~r.valid
       THEN /\ hostPanic' = "build"
            /\ UNCHANGED <<SOUNDFONT, lastBuilt>>
       ELSE /\ SOUNDFONT' = IF SOUNDFONT = Unset THEN r.id ELSE SOUNDFONT
            /\ lastBuilt' = r.id
            /\ UNCHANGED hostPanic
    /\ UNCHANGED <<midi, synthOk, sf, pc, noteIdx, left, right, idx, renders,
                   queue, closed, closeCalled, rxAlive, ret, nout, eos, written,
                   received, events, dropPc>>

\* build: SoundFont::new(..).unwrap() panics on bytes that do not parse;
\* `let _ = SOUNDFONT.set(..)` keeps what the cell already holds; then the
\* audio source, the asset and the loader are registered
Build(r) ==
    /\ Running
    /\ IF ~r.valid
       THEN /\ hostPanic' = "build"
            /\ UNCHANGED <<SOUNDFONT, registered, lastBuilt>>
       ELSE /\ SOUNDFONT' = IF SOUNDFONT = Unset THEN r.id ELSE SOUNDFONT
            /\ registered' = TRUE
            /\ lastBuilt' = r.id
            /\ UNCHANGED hostPanic
    /\ UNCHANGED <<midi, synthOk, sf, pc, noteIdx, left, right, idx, renders,
                   queue, closed, closeCalled, rxAlive, ret, nout, eos, written,
                   received, events, dropPc>>

\* decoder(): SOUNDFONT.get().unwrap() panics while the cell is empty; otherwise
\* MidiFileDecoder::new(self.clone(), soundfont) creates the channel and spawns
\* the task.  Slots are taken in order.
Decoder(p, m, ok) ==
    /\ Running
    /\ pc[p] = "none"
    /\ \A q \in DOMAIN pc : q < p => pc[q] # "none"
    /\ IF SOUNDFONT = Unset
       THEN /\ hostPanic' = "decoder"
            /\ UNCHANGED <<midi, synthOk, sf, pc, rxAlive>>
       ELSE /\ midi' = [midi EXCEPT ![p] = m]
            /\ synthOk' = [synthOk EXCEPT ![p] = ok]
            /\ sf' = [sf EXCEPT ![p] = SOUNDFONT]
            /\ pc' = [pc EXCEPT ![p] = "start"]
            /\ rxAlive' = [rxAlive EXCEPT ![p] = TRUE]
            /\ UNCHANGED hostPanic
    /\ UNCHANGED <<SOUNDFONT, registered, lastBuilt, noteIdx, left, right, idx,
                   renders, queue, closed, closeCalled, ret, nout, eos, written,
                   received, events, dropPc>>

(***************************************************************************)
(* The channel (async_channel), at the three places the code uses it.      *)
(***************************************************************************)
\* a channel without a capacity
SendOutcome_unbounded(q, c) == IF c THEN "Closed" ELSE "Ok"

\* tx.send(v): Err once the channel is closed, pending while it is full
SendOutcome(q, c) ==
    IF c THEN "Closed" ELSE IF Len(q) >= Capacity THEN "Full" ELSE "Ok"

\* the close flag looked at before the buffer
TryRecv_closedFirst(q, c) ==
    IF c THEN [tag |-> "Closed", value |-> Zero]
    ELSE IF q # << >> THEN [tag |-> "Ok", value |-> Head(q)]
    ELSE [tag |-> "Empty", value |-> Zero]

\* an empty channel taken for the end of the stream
TryRecv_emptyIsClosed(q, c) ==
    IF q # << >> THEN [tag |-> "Ok", value |-> Head(q)]
    ELSE [tag |-> "Closed", value |-> Zero]

\* the newest buffered sample handed out instead of the oldest
TryRecv_newest(q, c) ==
    IF q # << >> THEN [tag |-> "Ok", value |-> q[Len(q)]]
    ELSE IF c THEN [tag |-> "Closed", value |-> Zero]
    ELSE [tag |-> "Empty", value |-> Zero]

\* self.stream.try_recv()
TryRecv(q, c) ==
    IF q # << >> THEN [tag |-> "Ok", value |-> Head(q)]
    ELSE IF c THEN [tag |-> "Closed", value |-> Zero]
    ELSE [tag |-> "Empty", value |-> Zero]

(***************************************************************************)
(* The producer task (the async block of MidiFileDecoder::new).            *)
(***************************************************************************)
\* an `expect` fails: the task unwinds, which drops tx and so closes the channel
Panic(p) ==
    /\ pc' = [pc EXCEPT ![p] = "panicked"]
    /\ closed' = [closed EXCEPT ![p] = TRUE]
    /\ UNCHANGED <<noteIdx, left, right, idx, renders, queue, closeCalled,
                   written, events>>

\* lines 95-105 and the `match midi`
TaskStart(p) ==
    /\ Running
    /\ pc[p] = "start"
    /\ IF ~synthOk[p] \/ (midi[p].kind = "File" /\ ~midi[p].valid)
       THEN Panic(p)
       ELSE /\ pc' = [pc EXCEPT ![p] = IF midi[p].kind = "File"
                                       THEN "file_loop" ELSE "seq_loop"]
            /\ events' = IF midi[p].kind = "File"
                         THEN [events EXCEPT ![p] = Append(@, Ev("play", 0))]
                         ELSE events
            /\ UNCHANGED <<noteIdx, left, right, idx, renders, queue, closed,
                           closeCalled, written>>
    /\ UNCHANGED <<appVars, midi, synthOk, sf, rxAlive, ret, nout, eos,
                   received, dropPc>>

\* a sequencer started with play(&midi, true): at the end of the file it starts
\* over instead of reporting end_of_sequence
FileLoop_loop(p) ==
    /\ Running
    /\ pc[p] = "file_loop"
    /\ renders' = [renders EXCEPT ![p] = (@ % midi[p].blocks) + 1]
    /\ left' = [left EXCEPT ![p] = Rendered((renders[p] % midi[p].blocks) + 1,
                                            SampleRate, "L")]
    /\ right' = [right EXCEPT ![p] = Rendered((renders[p] % midi[p].blocks) + 1,
                                              SampleRate, "R")]
    /\ idx' = [idx EXCEPT ![p] = 0]
    /\ events' = IF renders[p] = midi[p].blocks
                 THEN events
                 ELSE [events EXCEPT
                         ![p] = Append(@, Ev("render", renders[p] + 1))]
    /\ pc' = [pc EXCEPT ![p] = "send"]
    /\ UNCHANGED <<appVars, midi, synthOk, sf, noteIdx, queue, closed,
                   closeCalled, rxAlive, ret, nout, eos, written, received,
                   dropPc>>

\* while !sequencer.end_of_sequence() { sequencer.render(&mut left, &mut right); ..
FileLoop(p) ==
    /\ Running
    /\ pc[p] = "file_loop"
    /\ IF renders[p] = midi[p].blocks
       THEN /\ pc' = [pc EXCEPT ![p] = "closing"]
            /\ UNCHANGED <<left, right, idx, renders, events>>
       ELSE /\ renders' = [renders EXCEPT ![p] = @ + 1]
            /\ left' = [left EXCEPT ![p] = Rendered(renders[p] + 1, SampleRate, "L")]
            /\ right' = [right EXCEPT ![p] = Rendered(renders[p] + 1, SampleRate, "R")]
            /\ idx' = [idx EXCEPT ![p] = 0]
            /\ events' = [events EXCEPT
                            ![p] = Append(@, Ev("render", renders[p] + 1))]
            /\ pc' = [pc EXCEPT ![p] = "send"]
    /\ UNCHANGED <<appVars, midi, synthOk, sf, noteIdx, queue, closed,
                   closeCalled, rxAlive, ret, nout, eos, written, received,
                   dropPc>>

\* the three calls a note starts with, in the order of lines 125-129
NoteStart(k, note) ==
    <<EvNote("program_change", k, note.channel, note.preset, 0),
      EvNote("note_on", k, note.channel, note.key, note.velocity),
      Ev("render", k)>>

\* the note released right after render, before its samples are sent
SeqLoop_noteOffEarly(p) ==
    /\ Running
    /\ pc[p] = "seq_loop"
    /\ IF noteIdx[p] > Len(midi[p].notes)
       THEN /\ pc' = [pc EXCEPT ![p] = "closing"]
            /\ UNCHANGED <<left, right, idx, renders, events>>
       ELSE LET note == midi[p].notes[noteIdx[p]]
                n == note_length[note.duration] IN
            /\ renders' = [renders EXCEPT ![p] = @ + 1]
            /\ left' = [left EXCEPT ![p] = Rendered(renders[p] + 1, n, "L")]
            /\ right' = [right EXCEPT ![p] = Rendered(renders[p] + 1, n, "R")]
            /\ idx' = [idx EXCEPT ![p] = 0]
            /\ events' = [events EXCEPT ![p] =
                             @ \o NoteStart(noteIdx[p], note)
                               \o <<EvNote("note_off", noteIdx[p], note.channel,
                                           note.key, 0)>>]
            /\ pc' = [pc EXCEPT ![p] = "send"]
    /\ UNCHANGED <<appVars, midi, synthOk, sf, noteIdx, queue, closed,
                   closeCalled, rxAlive, ret, nout, eos, written, received,
                   dropPc>>

\* for MidiNote {..} in sequence.iter() { program change; note_on; render; ..
SeqLoop(p) ==
    /\ Running
    /\ pc[p] = "seq_loop"
    /\ IF noteIdx[p] > Len(midi[p].notes)
       THEN /\ pc' = [pc EXCEPT ![p] = "closing"]
            /\ UNCHANGED <<left, right, idx, renders, events>>
       ELSE LET note == midi[p].notes[noteIdx[p]]
                n == note_length[note.duration] IN
            /\ renders' = [renders EXCEPT ![p] = @ + 1]
            /\ left' = [left EXCEPT ![p] = Rendered(renders[p] + 1, n, "L")]
            /\ right' = [right EXCEPT ![p] = Rendered(renders[p] + 1, n, "R")]
            /\ idx' = [idx EXCEPT ![p] = 0]
            /\ events' = [events EXCEPT ![p] = @ \o NoteStart(noteIdx[p], note)]
            /\ pc' = [pc EXCEPT ![p] = "send"]
    /\ UNCHANGED <<appVars, midi, synthOk, sf, noteIdx, queue, closed,
                   closeCalled, rxAlive, ret, nout, eos, written, received,
                   dropPc>>

\* a failed send answered with `break`: the task goes on to tx.close()
Deliver_breakOnErr(p) ==
    LET v == Interleave(left[p], right[p])[idx[p] + 1] IN
    IF SendOutcome(queue[p], closed[p]) = "Closed"
    THEN /\ pc' = [pc EXCEPT ![p] = "closing"]
         /\ UNCHANGED <<idx, queue, written>>
    ELSE /\ queue' = [queue EXCEPT ![p] = Append(@, v)]
         /\ written' = [written EXCEPT ![p] = Append(@, v)]
         /\ idx' = [idx EXCEPT ![p] = @ + 1]
         /\ pc' = [pc EXCEPT ![p] = "send"]

\* one channel shared by every playback: all producers send into the first
Deliver_shared(p) ==
    LET v == Interleave(left[p], right[p])[idx[p] + 1] IN
    IF SendOutcome(queue[p], closed[p]) = "Closed"
    THEN /\ pc' = [pc EXCEPT ![p] = "cancelled"]
         /\ UNCHANGED <<idx, queue, written>>
    ELSE /\ queue' = [queue EXCEPT ![1] = Append(@, v)]
         /\ written' = [written EXCEPT ![p] = Append(@, v)]
         /\ idx' = [idx EXCEPT ![p] = @ + 1]
         /\ pc' = [pc EXCEPT ![p] = "send"]

\* one tx.send(*value).await reaching a result: the value is accepted, or the
\* channel is closed and the task returns (dropping tx)
Deliver(p) ==
    LET v == Interleave(left[p], right[p])[idx[p] + 1] IN
    IF SendOutcome(queue[p], closed[p]) = "Closed"
    THEN /\ pc' = [pc EXCEPT ![p] = "cancelled"]
         /\ UNCHANGED <<idx, queue, written>>
    ELSE /\ queue' = [queue EXCEPT ![p] = Append(@, v)]
         /\ written' = [written EXCEPT ![p] = Append(@, v)]
         /\ idx' = [idx EXCEPT ![p] = @ + 1]
         /\ pc' = [pc EXCEPT ![p] = "send"]

\* a non-waiting send: a value that finds the channel full is skipped
SendValue_trySend(p) ==
    /\ Running
    /\ pc[p] = "send"
    /\ idx[p] < Len(left[p]) + Len(right[p])
    /\ IF SendOutcome(queue[p], closed[p]) = "Full"
       THEN /\ idx' = [idx EXCEPT ![p] = @ + 1]
            /\ UNCHANGED <<pc, queue, written>>
       ELSE Deliver(p)
    /\ UNCHANGED <<appVars, midi, synthOk, sf, noteIdx, left, right, renders,
                   closed, closeCalled, rxAlive, ret, nout, eos, received,
                   events, dropPc>>

\* the next item of the interleaved iterator is sent
SendValue(p) ==
    /\ Running
    /\ pc[p] = "send"
    /\ idx[p] < Len(left[p]) + Len(right[p])
    /\ IF SendOutcome(queue[p], closed[p]) = "Full"
       THEN /\ pc' = [pc EXCEPT ![p] = "suspended"]
            /\ UNCHANGED <<idx, queue, written>>
       ELSE Deliver(p)
    /\ UNCHANGED <<appVars, midi, synthOk, sf, noteIdx, left, right, renders,
                   closed, closeCalled, rxAlive, ret, nout, eos, received,
                   events, dropPc>>

\* the send that found the channel full is woken: by try_recv freeing a slot,
\* or by the channel being closed
SendResume(p) ==
    /\ Running
    /\ pc[p] = "suspended"
    /\ SendOutcome(queue[p], closed[p]) # "Full"
    /\ Deliver(p)
    /\ UNCHANGED <<appVars, midi, synthOk, sf, noteIdx, left, right, renders,
                   closed, closeCalled, rxAlive, ret, nout, eos, received,
                   events, dropPc>>

\* the interleaved iterator is exhausted: back to the while (File), or
\* synthesizer.note_off and the next note (Sequence)
EndOfBlock(p) ==
    /\ Running
    /\ pc[p] = "send"
    /\ idx[p] = Len(left[p]) + Len(right[p])
    /\ IF midi[p].kind = "File"
       THEN /\ pc' = [pc EXCEPT ![p] = "file_loop"]
            /\ UNCHANGED <<noteIdx, events>>
       ELSE LET note == midi[p].notes[noteIdx[p]] IN
            /\ events' = [events EXCEPT ![p] =
                             Append(@, EvNote("note_off", noteIdx[p],
                                              note.channel, note.key, 0))]
            /\ noteIdx' = [noteIdx EXCEPT ![p] = @ + 1]
            /\ pc' = [pc EXCEPT ![p] = "seq_loop"]
    /\ UNCHANGED <<appVars, midi, synthOk, sf, left, right, idx, renders, queue,
                   closed, closeCalled, rxAlive, ret, nout, eos, written,
                   received, dropPc>>

\* the task ends with the channel left open (a Sender clone outlives the task)
Close_leak(p) ==
    /\ Running
    /\ pc[p] = "closing"
    /\ pc' = [pc EXCEPT ![p] = "done"]
    /\ UNCHANGED <<appVars, midi, synthOk, sf, noteIdx, left, right, idx,
                   renders, queue, closed, closeCalled, rxAlive, ret, nout, eos,
                   written, received, events, dropPc>>

\* tx.close(); the task ends
Close(p) ==
    /\ Running
    /\ pc[p] = "closing"
    /\ closed' = [closed EXCEPT ![p] = TRUE]
    /\ closeCalled' = [closeCalled EXCEPT ![p] = TRUE]
    /\ pc' = [pc EXCEPT ![p] = "done"]
    /\ UNCHANGED <<appVars, midi, synthOk, sf, noteIdx, left, right, idx,
                   renders, queue, rxAlive, ret, nout, eos, written, received,
                   events, dropPc>>

Producer(p) ==
    \/ TaskStart(p)
    \/ FileLoop(p)
    \/ SeqLoop(p)
    \/ SendValue(p)
    \/ SendResume(p)
    \/ EndOfBlock(p)
    \/ Close(p)

(***************************************************************************)
(* The consumer: Iterator::next of MidiFileDecoder, and its drop.          *)
(***************************************************************************)
\* the blocking receive, which waits while the channel is open and empty
ConsumerNext_recv(p) ==
    /\ Running
    /\ rxAlive[p]
    /\ queue[p] # << >> \/ closed[p]
    /\ IF queue[p] # << >>
       THEN /\ queue' = [queue EXCEPT ![p] = Tail(@)]
            /\ ret' = [ret EXCEPT ![p] = Some(Head(queue[p]))]
            /\ received' = [received EXCEPT ![p] = Append(@, Head(queue[p]))]
            /\ nout' = [nout EXCEPT ![p] = 1 - @]
            /\ UNCHANGED eos
       ELSE /\ ret' = [ret EXCEPT ![p] = None]
            /\ eos' = [eos EXCEPT ![p] = IF @ = "no" THEN "first" ELSE "again"]
            /\ UNCHANGED <<queue, received, nout>>
    /\ UNCHANGED <<appVars, midi, synthOk, sf, pc, noteIdx, left, right, idx,
                   renders, closed, closeCalled, rxAlive, written, events,
                   dropPc>>

\* next: Ok(value) => Some(value), Empty => Some(0.0), Closed => None
ConsumerNext(p) ==
    /\ Running
    /\ rxAlive[p]
    /\ LET r == TryRecv(queue[p], closed[p]) IN
       CASE r.tag = "Ok" ->
              /\ queue' = [queue EXCEPT ![p] = Tail(@)]
              /\ ret' = [ret EXCEPT ![p] = Some(r.value)]
              /\ received' = [received EXCEPT ![p] = Append(@, r.value)]
              /\ nout' = [nout EXCEPT ![p] = 1 - @]
              /\ UNCHANGED eos
         [] r.tag = "Empty" ->
              /\ ret' = [ret EXCEPT ![p] = Some(Zero)]
              /\ nout' = [nout EXCEPT ![p] = 1 - @]
              /\ UNCHANGED <<queue, received, eos>>
         [] r.tag = "Closed" ->
              /\ ret' = [ret EXCEPT ![p] = None]
              /\ eos' = [eos EXCEPT ![p] = IF @ = "no" THEN "first" ELSE "again"]
              /\ UNCHANGED <<queue, received, nout>>
    /\ UNCHANGED <<appVars, midi, synthOk, sf, pc, noteIdx, left, right, idx,
                   renders, closed, closeCalled, rxAlive, written, events,
                   dropPc>>

\* a drop that leaves the channel open (another Receiver clone kept alive)
ConsumerDrop_leak(p) ==
    /\ Running
    /\ rxAlive[p]
    /\ rxAlive' = [rxAlive EXCEPT ![p] = FALSE]
    /\ dropPc' = [dropPc EXCEPT ![p] = pc[p]]
    /\ UNCHANGED <<appVars, midi, synthOk, sf, pc, noteIdx, left, right, idx,
                   renders, queue, closed, closeCalled, ret, nout, eos, written,
                   received, events>>

\* the decoder is dropped: its Receiver was the only one, so the channel closes
ConsumerDrop(p) ==
    /\ Running
    /\ rxAlive[p]
    /\ rxAlive' = [rxAlive EXCEPT ![p] = FALSE]
    /\ closed' = [closed EXCEPT ![p] = TRUE]
    /\ dropPc' = [dropPc EXCEPT ![p] = pc[p]]
    /\ UNCHANGED <<appVars, midi, synthOk, sf, pc, noteIdx, left, right, idx,
                   renders, queue, closeCalled, ret, nout, eos, written,
                   received, events>>

(***************************************************************************)
(* The specifications.                                                     *)
(***************************************************************************)
\* one playback, over every source; the plugins are built before the app runs
Next ==
    \/ (\A p \in DOMAIN pc : pc[p] = "none") /\ \E r \in OneReader : Build(r)
    \/ \E p \in DOMAIN pc :
          pc[p] = "none" /\ \E m \in MidiAudio, ok \in BOOLEAN : Decoder(p, m, ok)
    \/ \E p \in DOMAIN pc : Producer(p)
    \/ \E p \in DOMAIN pc : ConsumerNext(p)
    \/ \E p \in DOMAIN pc : ConsumerDrop(p)

Spec == Init /\ [][Next]_vars

\* the task pool keeps polling a task that can make progress
FairSpec == Spec /\ \A p \in Single : WF_vars(Producer(p))

\* ... and the audio pipeline keeps pulling samples from the decoder
LiveSpec == FairSpec /\ \A p \in Single : WF_vars(ConsumerNext(p))

\* one playback over a few sources, and builds with any reader at any time
PluginNext ==
    \/ \E r \in Readers : Build(r)
    \/ \E p \in DOMAIN pc :
          pc[p] = "none" /\ \E m \in FewSources : Decoder(p, m, TRUE)
    \/ \E p \in DOMAIN pc : Producer(p)
    \/ \E p \in DOMAIN pc : ConsumerNext(p)
    \/ \E p \in DOMAIN pc : ConsumerDrop(p)

PluginSpec == Init /\ [][PluginNext]_vars

\* two playbacks side by side, each over one of a few sources
PairInit == InitOf(Pair)

PairNext ==
    \/ (\A p \in DOMAIN pc : pc[p] = "none") /\ \E r \in OneReader : Build(r)
    \/ \E p \in DOMAIN pc :
          pc[p] = "none" /\ \E m \in FewSources : Decoder(p, m, TRUE)
    \/ \E p \in DOMAIN pc : Producer(p)
    \/ \E p \in DOMAIN pc : ConsumerNext(p)
    \/ \E p \in DOMAIN pc : ConsumerDrop(p)

PairSpec == PairInit /\ [][PairNext]_vars

(***************************************************************************)
(* Properties.                                                             *)
(***************************************************************************)
IsPrefix(a, b) == Len(a) <= Len(b) /\ a = SubSeq(b, 1, Len(a))

ProducerEnded(p) == pc[p] \in {"done", "cancelled", "panicked"}

\* the decoder of slot p was constructed and has been dropped
Dropped(p) == dropPc[p] # "alive"

\* C1: next returns None exactly when, at the call, the channel is closed and
\* holds no sample; a closed channel that still holds samples yields the oldest
\* one, so when None is returned everything written has been returned.
C1_EndOfStreamIffClosedAndDrained ==
    /\ [][\A p \in DOMAIN pc : ConsumerNext(p) =>
            /\ (ret'[p] = None) <=> (closed[p] /\ queue[p] = << >>)
            /\ (closed[p] /\ queue[p] # << >>) =>
                  (ret'[p] = Some(Head(queue[p])) /\ queue'[p] = Tail(queue[p]))]_vars
    /\ [](\A p \in DOMAIN pc : ret[p] = None => received[p] = written[p])

\* C1 witness: end-of-stream was returned after the samples written before the
\* close had been returned
C1_Witness ==
    \E p \in DOMAIN pc :
        /\ ret[p] = None /\ rxAlive[p] /\ closeCalled[p]
        /\ received[p] = written[p] /\ Len(written[p]) >= 2

\* C2: a call of next on an open, empty channel returns Some(0.0) (not None, not
\* a sample returned before) and leaves the channel and the producer as they were.
C2_UnderrunIsSilence ==
    [][\A p \in DOMAIN pc : (ConsumerNext(p) /\ ~closed[p] /\ queue[p] = << >>) =>
          /\ ret'[p] = Some(Zero)
          /\ \A k \in 1..Len(received[p]) : ret'[p].value # received[p][k]
          /\ UNCHANGED <<queue, closed, closeCalled, producerVars, written,
                         received>>]_vars

\* C2 witness: silence was returned while the producer was in the middle of a
\* block and the channel open and empty
C2_Witness ==
    \E p \in DOMAIN pc :
        /\ ret[p] = Some(Zero) /\ rxAlive[p] /\ ~closed[p] /\ queue[p] = << >>
        /\ written[p] # << >> /\ pc[p] = "send"

\* C3: while the decoder exists a call of next can always be taken, in every
\* state of the producer.
C3_ConsumerNeverBlocks ==
    \A p \in DOMAIN pc : (Running /\ rxAlive[p]) => ENABLED ConsumerNext(p)

\* C3 witness: the producer waits on the full channel (no producer step is
\* possible) and next can be called
C3_Witness ==
    \E p \in DOMAIN pc :
        /\ pc[p] = "suspended" /\ Len(queue[p]) = Capacity /\ rxAlive[p]
        /\ ~ENABLED Producer(p) /\ ENABLED ConsumerNext(p)

\* C4: the samples next returned from the channel are a prefix of the samples
\* written, in write order; what is written and not yet returned is what the
\* channel holds.
C4_Fifo ==
    \A p \in DOMAIN pc :
        /\ IsPrefix(received[p], written[p])
        /\ written[p] = received[p] \o queue[p]

\* C4 witness: several samples returned, an underrun in between, more buffered
C4_Witness ==
    \E p \in DOMAIN pc :
        /\ Len(received[p]) >= 3 /\ Len(queue[p]) >= 2 /\ rxAlive[p]
        /\ ret[p] = Some(received[p][Len(received[p])])

\* C5: the samples written and not yet read never exceed the capacity
\* 2 * sample_rate.
C5_Backpressure ==
    \A p \in DOMAIN pc :
        /\ Len(queue[p]) <= 2 * SampleRate
        /\ Len(written[p]) - Len(received[p]) <= 2 * SampleRate

\* C5 witness: the channel is full and the producer waits with samples left
C5_Witness ==
    \E p \in DOMAIN pc :
        /\ Len(queue[p]) = 2 * SampleRate /\ pc[p] = "suspended"
        /\ idx[p] < Len(left[p]) + Len(right[p])

RECURSIVE SumFrames(_, _)
SumFrames(f(_), notes) ==
    IF notes = << >> THEN 0
    ELSE f(Head(notes).duration) + SumFrames(f, Tail(notes))

\* samples the source yields when nothing fails and nobody cancels
SourceSamples(p) ==
    IF ~synthOk[p] \/ ~midi[p].valid THEN 0
    ELSE IF midi[p].kind = "File" THEN 2 * SampleRate * midi[p].blocks
    ELSE 2 * SumFrames(LAMBDA d : note_length[d], midi[p].notes)

SuspendedFull(p) ==
    pc[p] = "suspended" /\ Len(queue[p]) = Capacity /\ ~closed[p]

\* C6: with a source of more than Capacity samples and a consumer that makes no
\* call, the producer comes to wait on a full channel; while it waits there it
\* writes nothing and does nothing else; once a slot is free the waiting send
\* is resumed, and a resumed send on an open channel writes the pending sample.
C6_BackpressureLiveness ==
    /\ \A p \in Single :
          (pc[p] = "start" /\ SourceSamples(p) > Capacity)
             ~> (SuspendedFull(p) \/ ret[p].called \/ ~rxAlive[p] \/ ~Running)
    /\ [][\A p \in DOMAIN pc :
             SuspendedFull(p) => UNCHANGED <<written, producerVars>>]_vars
    /\ \A p \in Single :
          (pc[p] = "suspended" /\ Len(queue[p]) < Capacity)
             ~> (pc[p] # "suspended" \/ ~Running)
    /\ [][\A p \in DOMAIN pc :
            (pc[p] = "suspended" /\ pc'[p] # "suspended" /\ ~closed[p]) =>
               /\ pc'[p] = "send"
               /\ written'[p] =
                     Append(written[p],
                            Interleave(left[p], right[p])[idx[p] + 1])]_vars

\* C6 witness: the consumer has made no call and the producer waits on the full
\* channel with samples still to send
C6_Witness ==
    \E p \in DOMAIN pc :
        /\ SuspendedFull(p) /\ ~ret[p].called /\ rxAlive[p]
        /\ SourceSamples(p) > Capacity /\ Len(written[p]) = Capacity

\* C7: once the decoder is dropped the producer task ends, also when it was
\* waiting on the full channel; after the drop no write succeeds; a failed write
\* makes the task end at once without tx.close(), and there is no second one.
C7_Cancellation ==
    /\ \A p \in Single : Dropped(p) ~> (ProducerEnded(p) \/ ~Running)
    /\ [][\A p \in DOMAIN pc : Dropped(p) => written'[p] = written[p]]_vars
    /\ [][\A p \in DOMAIN pc :
             ((SendValue(p) \/ SendResume(p)) /\ closed[p]) =>
                (pc'[p] = "cancelled" /\ UNCHANGED <<closeCalled, events>>)]_vars
    /\ [](\A p \in DOMAIN pc :
             pc[p] = "cancelled" =>
                (Dropped(p) /\ ~closeCalled[p] /\ ~ENABLED Producer(p)))

\* C7 witness: the decoder was dropped while the producer waited on the full
\* channel, and the producer ended on the failed write
C7_Witness ==
    \E p \in DOMAIN pc :
        /\ dropPc[p] = "suspended" /\ pc[p] = "cancelled"
        /\ ~closeCalled[p] /\ Len(queue[p]) = Capacity

\* the program changes, note-ons, renders and note-offs made so far
SynthesisWork(p) ==
    SelectSeq(events[p], LAMBDA e :
        e.op \in {"program_change", "note_on", "render", "note_off"})

\* C8: after the decoder is dropped the producer does no further synthesis work
\* (no program change, note-on, render or note-off).
C8_NoSynthesisAfterDrop ==
    [][\A p \in DOMAIN pc :
          Dropped(p) => SynthesisWork(p)' = SynthesisWork(p)]_vars

\* floor(nanos * k / NANOS_PER_SEC), by k additions
RECURSIVE FloorNanosTimes(_, _, _, _)
FloorNanosTimes(k, q, r, nanos) ==
    IF k = 0 THEN q
    ELSE IF r + nanos >= NANOS_PER_SEC
         THEN FloorNanosTimes(k - 1, q + 1, r + nanos - NANOS_PER_SEC, nanos)
         ELSE FloorNanosTimes(k - 1, q, r + nanos, nanos)

\* floor(d * sample_rate), in exact arithmetic
ExactFrames(d) == d.secs * SampleRate + FloorNanosTimes(SampleRate, 0, 0, d.nanos)

WrittenOfCall(p, c) == SelectSeq(written[p], LAMBDA s : s.call = c)

\* C9: when a Sequence has been played to the end (channel closed by the
\* producer), note k has contributed 2 * floor(d_k * sample_rate) samples and
\* the total written is the sum over the notes.
C9_SampleCount ==
    \A p \in DOMAIN pc :
        (pc[p] = "done" /\ midi[p].kind = "Sequence") =>
            /\ \A k \in 1..Len(midi[p].notes) :
                  Len(WrittenOfCall(p, k)) =
                     2 * ExactFrames(midi[p].notes[k].duration)
            /\ Len(written[p]) = 2 * SumFrames(ExactFrames, midi[p].notes)

\* frames of render call c
CallFrames(p, c) ==
    IF midi[p].kind = "File" THEN SampleRate
    ELSE note_length[midi[p].notes[c].duration]

\* C10: in the write sequence, positions 2i and 2i+1 (from 0) hold the left and
\* the right value of one frame of one render call; frames follow in order, and
\* a render call's buffers are written completely before the next call's.
C10_Interleaving ==
    \A p \in DOMAIN pc : \A k \in 1..Len(written[p]) :
       LET s == written[p][k] IN
       IF k % 2 = 1
       THEN /\ s.side = "L"
            /\ s.call < renders[p] \/ s = left[p][s.frame]
            /\ IF k = 1
               THEN /\ s.frame = 1
                    /\ \A c \in 1..(s.call - 1) : CallFrames(p, c) = 0
               ELSE LET t == written[p][k - 1] IN
                    \/ s.call = t.call /\ s.frame = t.frame + 1
                    \/ /\ s.call > t.call /\ s.frame = 1
                       /\ t.frame = CallFrames(p, t.call)
                       /\ \A c \in (t.call + 1)..(s.call - 1) :
                             CallFrames(p, c) = 0
       ELSE /\ s.side = "R"
            /\ s.call = written[p][k - 1].call
            /\ s.frame = written[p][k - 1].frame
            /\ s.call < renders[p] \/ s = right[p][s.frame]

\* C10 witness: two render calls have been written, the second in part
C10_Witness ==
    \E p \in DOMAIN pc :
        /\ Len(written[p]) >= 4 /\ written[p][1].call = 1
        /\ written[p][Len(written[p])].call = 2
        /\ written[p][Len(written[p])].frame >= 2

\* render calls the source takes when nothing fails and nobody cancels
NumCalls(p) ==
    IF ~synthOk[p] \/ ~midi[p].valid THEN 0
    ELSE IF midi[p].kind = "File" THEN midi[p].blocks
    ELSE Len(midi[p].notes)

\* the samples of render calls 1..c, each call's buffers interleaved
RECURSIVE RenderedUpTo(_, _)
RenderedUpTo(p, c) ==
    IF c = 0 THEN << >>
    ELSE RenderedUpTo(p, c - 1)
            \o Interleave(Rendered(c, CallFrames(p, c), "L"),
                          Rendered(c, CallFrames(p, c), "R"))

\* C11: a decoder that is not dropped and keeps calling next, with a producer
\* that keeps being polled, is eventually returned None; the samples it was
\* returned from the channel before that are exactly the samples of all render
\* calls of the source, in order; for a Sequence without notes nothing is
\* written and every value returned before None is the substituted 0.0.
C11_EndOfStreamReached ==
    /\ \A p \in Single :
          rxAlive[p] ~> (ret[p] = None \/ Dropped(p) \/ ~Running)
    /\ [](\A p \in DOMAIN pc :
             ret[p] = None =>
                /\ received[p] = RenderedUpTo(p, NumCalls(p))
                /\ written[p] = received[p])
    /\ [](\A p \in DOMAIN pc :
             (midi[p].kind = "Sequence" /\ midi[p].notes = << >>) =>
                /\ written[p] = << >>
                /\ ret[p].some => ret[p].value = Zero)

\* C11 witness: a source longer than the channel was played to the end, with
\* an underrun on the way, and None was returned
C11_Witness ==
    \E p \in DOMAIN pc :
        /\ ret[p] = None /\ rxAlive[p] /\ nout[p] = 1
        /\ Len(received[p]) > Capacity
        /\ received[p] = RenderedUpTo(p, NumCalls(p))

\* the construction of playback p fails fatally inside the task
TaskFails(p) ==
    pc[p] # "none" /\ (~synthOk[p] \/ (midi[p].kind = "File" /\ ~midi[p].valid))

\* a construction that fails inside the task writes nothing, and the decoder
\* is returned only 0.0 and then None
TaskFailureIsSilent ==
    \A p \in DOMAIN pc :
        TaskFails(p) =>
            /\ written[p] = << >> /\ queue[p] = << >>
            /\ ret[p].some => ret[p].value = Zero
            /\ pc[p] \in {"start", "panicked"}

\* C12: a playback whose construction fails fatally (SOUNDFONT not available,
\* Synthesizer::new fails, the MIDI bytes do not parse) does not panic the
\* caller of decoder() or of next: the producer writes no sample and the
\* decoder is returned only silence and then None.
C12_FatalFailureIsSilent ==
    /\ hostPanic # "decoder"
    /\ TaskFailureIsSilent

\* C13: SOUNDFONT is set once and never changes afterwards: over any sequence
\* of builds, with the same or with different readers, it holds the soundfont
\* parsed by the first build that parsed one; a later build does not replace it;
\* every decoder's task was handed that soundfont.
C13_SoundfontSetOnce ==
    /\ [][SOUNDFONT # Unset => SOUNDFONT' = SOUNDFONT]_vars
    /\ [][\A r \in Readers :
             (Build(r) /\ r.valid /\ SOUNDFONT = Unset) => SOUNDFONT' = r.id]_vars
    /\ [][SOUNDFONT' # SOUNDFONT =>
             \E r \in Readers : r.valid /\ Build(r) /\ SOUNDFONT' = r.id]_vars
    /\ [](\A p \in DOMAIN pc :
             pc[p] # "none" => (SOUNDFONT # Unset /\ sf[p] = SOUNDFONT))

\* C13 witness: after a build with one soundfont, a build with the other one
\* succeeded and SOUNDFONT still holds the first, which a decoder was handed
C13_Witness ==
    /\ SOUNDFONT = "sfA" /\ lastBuilt = "sfB" /\ registered
    /\ \E p \in DOMAIN pc : rxAlive[p] /\ sf[p] = "sfA"

\* C14: a build whose soundfont bytes do not parse fails (it panics): SOUNDFONT
\* is left as it was before the call and the call registers nothing; so
\* MidiAudio is registered only once a soundfont has been stored.
C14_BadSoundfontAborts ==
    /\ [][\A r \in Readers :
             (Build(r) /\ ~r.valid) =>
                /\ hostPanic' = "build"
                /\ SOUNDFONT' = SOUNDFONT
                /\ registered' = registered]_vars
    /\ [](registered => SOUNDFONT # Unset)

\* C14 witness: the only build made was one with bytes that do not parse
C14_Witness ==
    hostPanic = "build" /\ ~registered /\ SOUNDFONT = Unset /\ lastBuilt = Unset

\* the calls notes 1..k of the Sequence are to cause, one note after the other:
\* program change, note-on, render, note-off
RECURSIVE NoteEventsUpTo(_, _)
NoteEventsUpTo(p, k) ==
    IF k = 0 THEN << >>
    ELSE LET note == midi[p].notes[k] IN
         NoteEventsUpTo(p, k - 1)
            \o <<EvNote("program_change", k, note.channel, note.preset, 0),
                 EvNote("note_on", k, note.channel, note.key, note.velocity),
                 Ev("render", k),
                 EvNote("note_off", k, note.channel, note.key, 0)>>

Last(s) == s[Len(s)]

\* C15: for a Sequence the notes are handled in list order and never overlap:
\* per note the program change (its preset on its channel), the note-on (its
\* key and velocity), the render and the note-off, in this order; a sample of
\* note k is written only between render and note-off of note k; the note-off
\* of note k comes when all samples of note k have been written, and before
\* the program change of note k+1.
C15_NoteOrder ==
    /\ [](\A p \in DOMAIN pc :
             midi[p].kind = "Sequence" =>
                IsPrefix(events[p], NoteEventsUpTo(p, Len(midi[p].notes))))
    /\ [][\A p \in DOMAIN pc :
             (midi[p].kind = "Sequence" /\ written'[p] # written[p]) =>
                /\ events'[p] = events[p]
                /\ Last(events[p]).op = "render"
                /\ Last(written'[p]).call = Last(events[p]).arg]_vars
    /\ [][\A p \in DOMAIN pc :
             (/\ midi[p].kind = "Sequence"
              /\ events'[p] # events[p]
              /\ Last(events'[p]).op = "note_off") =>
                Len(WrittenOfCall(p, Last(events'[p]).arg)) =
                   2 * CallFrames(p, Last(events'[p]).arg)]_vars

\* C15 witness: a Sequence of two notes with different voices, both of them
\* with samples, has been handled to the second note-off
C15_Witness ==
    \E p \in DOMAIN pc :
        /\ midi[p].kind = "Sequence" /\ Len(midi[p].notes) = 2
        /\ midi[p].notes[1].channel # midi[p].notes[2].channel
        /\ events[p] = NoteEventsUpTo(p, 2)
        /\ WrittenOfCall(p, 1) # << >> /\ WrittenOfCall(p, 2) # << >>

\* the calls a File of b blocks causes: one play, then one render per block
FileEventsUpTo(b) == <<Ev("play", 0)>> \o [c \in 1..b |-> Ev("render", c)]

FileAtEnd(p) == midi[p].kind = "File" /\ pc[p] \in {"closing", "done"}

\* C16: a File is played once: a block is rendered only while the sequencer
\* has not reached the end of the file, each block has exactly sample_rate
\* frames, and a block is rendered when the one before is written completely;
\* once the end is observed no further block is rendered, play is not called
\* again, and the channel is closed.
C16_FileSingleShot ==
    /\ [](\A p \in DOMAIN pc :
             midi[p].kind = "File" =>
                /\ renders[p] <= midi[p].blocks
                /\ IsPrefix(events[p], FileEventsUpTo(midi[p].blocks)))
    /\ [][\A p \in DOMAIN pc :
             (midi[p].kind = "File" /\ renders'[p] # renders[p]) =>
                /\ renders[p] < midi[p].blocks
                /\ Len(left'[p]) = SampleRate /\ Len(right'[p]) = SampleRate
                /\ Len(written[p]) = 2 * SampleRate * renders[p]]_vars
    /\ [](\A p \in DOMAIN pc :
             FileAtEnd(p) =>
                /\ renders[p] = midi[p].blocks
                /\ Len(written[p]) = 2 * SampleRate * midi[p].blocks)
    /\ [][\A p \in DOMAIN pc :
             FileAtEnd(p) =>
                /\ renders'[p] = renders[p] /\ events'[p] = events[p]
                /\ written'[p] = written[p]]_vars
    /\ \A p \in Single : FileAtEnd(p) ~> (closed[p] \/ ~Running)

\* C16 witness: a File of two blocks was rendered and written to its end and
\* the channel closed by the task
C16_Witness ==
    \E p \in DOMAIN pc :
        /\ midi[p].kind = "File" /\ midi[p].blocks = 2 /\ pc[p] = "done"
        /\ closeCalled[p] /\ Len(written[p]) = 4 * SampleRate
        /\ events[p] = FileEventsUpTo(2)

\* C17: the task calls tx.close() only from the end of its loops, when every
\* sample rendered from the source has been written; after the close it
\* attempts no write and takes no step; a task that ended on a failed write has
\* not closed the channel.
C17_CloseOnlyWhenComplete ==
    /\ [][\A p \in DOMAIN pc :
             closeCalled'[p] # closeCalled[p] =>
                /\ pc[p] = "closing" /\ closeCalled'[p]
                /\ written[p] = RenderedUpTo(p, NumCalls(p))
                /\ idx[p] = Len(left[p]) + Len(right[p])]_vars
    /\ [](\A p \in DOMAIN pc :
             closeCalled[p] =>
                /\ pc[p] = "done"
                /\ ~ENABLED SendValue(p) /\ ~ENABLED SendResume(p)
                /\ ~ENABLED Producer(p))
    /\ [][\A p \in DOMAIN pc : closeCalled[p] => written'[p] = written[p]]_vars
    /\ [][\A p \in DOMAIN pc :
             (pc'[p] = "cancelled" /\ pc[p] # "cancelled") =>
                (~closeCalled[p] /\ ~closeCalled'[p] /\ closed[p])]_vars

\* C17 witness: the task closed the channel at the end of a source longer than
\* the channel, with the last samples still buffered
C17_Witness ==
    \E p \in DOMAIN pc :
        /\ closeCalled[p] /\ pc[p] = "done" /\ rxAlive[p] /\ queue[p] # << >>
        /\ Len(written[p]) > Capacity

\* C18: in everything next returns, the substituted 0.0 included, a left sample
\* stands at an even position (counted from 0) and a right sample at an odd
\* one, whatever the interleaving of producer and consumer.
C18_ChannelAlignment ==
    \A p \in DOMAIN pc :
        /\ (ret[p].some /\ ret[p].value.side = "L") => nout[p] = 1
        /\ (ret[p].some /\ ret[p].value.side = "R") => nout[p] = 0

\* everything that belongs to playback p: its source, task, channel and decoder
\* and their histories
PlaybackState(p) ==
    <<midi[p], synthOk[p], sf[p], pc[p], noteIdx[p], left[p], right[p], idx[p],
      renders[p], queue[p], closed[p], closeCalled[p], rxAlive[p], ret[p],
      nout[p], eos[p], written[p], received[p], events[p], dropPc[p]>>

\* a step of playback q: its construction, its task, a call of next on its
\* decoder, the drop of its decoder
StepOf(q) ==
    \/ \E m \in FewSources : Decoder(q, m, TRUE)
    \/ Producer(q)
    \/ ConsumerNext(q)
    \/ ConsumerDrop(q)

\* C19: with several playbacks at a time, the state of a playback (channel,
\* task progress, decoder) changes only by a step of that playback (a write of
\* its task, its failure or end, a call of next on its decoder, its drop), and
\* such a step leaves every other playback and the shared soundfont as they
\* were; a decoder is returned samples of its own source only.
C19_Isolation ==
    /\ [][\A q \in DOMAIN pc :
             PlaybackState(q)' # PlaybackState(q) =>
                /\ StepOf(q)
                /\ \A p \in DOMAIN pc \ {q} : PlaybackState(p)' = PlaybackState(p)
                /\ SOUNDFONT' = SOUNDFONT]_vars
    /\ [](\A p \in DOMAIN pc :
             /\ IsPrefix(received[p], written[p])
             /\ IsPrefix(written[p], RenderedUpTo(p, NumCalls(p)))
             /\ pc[p] # "none" => sf[p] = SOUNDFONT)

\* C19 witness: of two playbacks of different sources one was dropped and its
\* task ended on the failed write, while the other one is being played
C19_Witness ==
    \E p, q \in DOMAIN pc :
        /\ p # q /\ midi[p] # midi[q]
        /\ Dropped(p) /\ pc[p] = "cancelled"
        /\ rxAlive[q] /\ pc[q] = "suspended" /\ received[q] # << >>
        /\ written[p] # << >>

\* C20: the end of the stream is final: once next has returned None, every
\* later call returns None (the closed channel stays closed and empty).
C20_EndOfStreamIsTerminal ==
    /\ [][\A p \in DOMAIN pc :
             (ConsumerNext(p) /\ eos[p] # "no") => ret'[p] = None]_vars
    /\ [][\A p \in DOMAIN pc :
             ret[p] = None =>
                /\ ret'[p] = None
                /\ closed'[p] /\ queue'[p] = << >>
                /\ received'[p] = received[p]]_vars
    /\ [](\A p \in DOMAIN pc : (eos[p] # "no") <=> (ret[p] = None))

\* C20 witness: None was returned, next was called again and returned None
C20_Witness ==
    \E p \in DOMAIN pc :
        /\ eos[p] = "again" /\ ret[p] = None /\ rxAlive[p]
        /\ received[p] # << >>

=============================================================================
